---- MODULE Spec2Model ----
(***************************************************************************)
(* Client-side orchestration of the image colorization front end:          *)
(*   - healthStore        (server health monitor)                          *)
(*   - colorizationStore  (upload session and object-URL handles)          *)
(*   - Home.vue           (drag/drop gate, progress simulator, modals)     *)
(* Pending setTimeout callbacks are kept in the order in which they will   *)
(* run.  Real time is not counted: a new timer is placed behind every      *)
(* pending timer whose delay is not larger than its own (such a timer was  *)
(* created no later and therefore expires no later), and anywhere behind   *)
(* that point otherwise.  Every order the browser can produce is covered.  *)
(***************************************************************************)
EXTENDS Integers, Sequences, FiniteSets, TLC

(* ---------------------------- bounds ----------------------------------- *)
\* number of colorizeImage calls that pass validation / Home sessions started
MaxCalls == 2
\* number of checkServerHealth calls awaiting their response at once
MaxHealthInFlight == 2
\* number of setInterval schedules ever created
MaxIntervals == 1
\* nesting depth of drag-enter events
MaxDragDepth == 2
\* number of sessions started where fairness is assumed
MaxLiveSessions == 1

(* --------------------------- constants --------------------------------- *)
NULL == "null"
NoHandle == 0
maxSize == 5 * 1024 * 1024
allowedTypes == {"image/jpeg", "image/jpg", "image/png", "image/bmp"}
SettleDelay == 1200
steps ==
  << [progress |-> 15, step |-> 0, minTime |-> 500],
     [progress |-> 35, step |-> 1, minTime |-> 800],
     [progress |-> 60, step |-> 2, minTime |-> 1200],
     [progress |-> 85, step |-> 3, minTime |-> 1000] >>

VARIABLES
  healthState,      \* reactive state of healthStore
  healthInFlight,   \* checkServerHealth calls suspended at await get_request
  booted,           \* the auto-initialize of the health store module has run
  intervalState,    \* setInterval schedules of startPeriodicHealthCheck
  colorizationState,\* reactive state of colorizationStore
  pending,          \* colorizeImage calls suspended at await upload_request
  nextCall,         \* id of the next accepted colorizeImage call / session
  liveHandles,      \* object URLs created and not yet revoked
  lastResult,       \* value the most recent colorizeImage call resolved to
  downloaded,       \* href of the last download link that was clicked
  isDragging, dragCounter,
  showProgress, showResult, currentProgress, currentStep,
  error,            \* Home's error ref
  selectedFile,
  timers,           \* pending setTimeout callbacks, in the order they will run
  history           \* per call: origin, outcome, pairs it wrote to the display

healthVars == <<healthState, healthInFlight, booted, intervalState>>
storeVars  == <<colorizationState, pending, nextCall, liveHandles, lastResult,
                downloaded>>
homeVars   == <<isDragging, dragCounter, showProgress, showResult,
                currentProgress, currentStep, error, selectedFile, timers>>
\* everything outside the health store
restVars == <<colorizationState, pending, nextCall, liveHandles, lastResult,
              downloaded, isDragging, dragCounter, showProgress, showResult,
              currentProgress, currentStep, error, selectedFile, timers,
              history>>
vars == <<healthState, healthInFlight, booted, intervalState,
          colorizationState, pending, nextCall, liveHandles, lastResult,
          downloaded, isDragging, dragCounter, showProgress, showResult, currentProgress,
          currentStep, error, selectedFile, timers, history>>

(* ======================= healthStore =================================== *)
healthInitial ==
  [isChecking |-> FALSE, serverStatus |-> NULL, modelLoaded |-> FALSE,
   serviceName |-> "", error |-> NULL, lastCheckTime |-> NULL,
   isInitialized |-> FALSE]

\* outcomes of get_request('health/')
HealthOk(status, loaded, service) ==
  [kind |-> "ok", code |-> 200, hasData |-> TRUE, status |-> status,
   model_loaded |-> loaded, service |-> service, message |-> ""]
HealthFail(kind, code, message) ==
  [kind |-> kind, code |-> code, hasData |-> FALSE, status |-> "",
   model_loaded |-> FALSE, service |-> "", message |-> message]
HealthOutcomes ==
  { HealthOk("healthy", TRUE, "colorizer"),
    HealthOk("healthy", FALSE, "colorizer"),
    HealthOk("unhealthy", FALSE, ""),
    HealthOk("", TRUE, "colorizer"),
    HealthFail("ok", 200, ""),
    HealthFail("http", 503, ""),
    HealthFail("http", 500, ""),
    HealthFail("http", 404, ""),
    HealthFail("noresponse", 0, ""),
    HealthFail("setup", 0, "Network Error") }

\* the health answers that differ in readiness or in the error they leave
GateOutcomes ==
  { HealthOk("healthy", TRUE, "colorizer"),
    HealthOk("healthy", FALSE, "colorizer"),
    HealthFail("http", 503, ""),
    HealthFail("noresponse", 0, "") }

\* try-block of checkServerHealth up to the await
healthCheckBegin(st) == [st EXCEPT !.isChecking = TRUE, !.error = NULL]

\* the branch taken when the response is 200 with a body
healthCheckSuccess(st, o) ==
  [st EXCEPT !.serverStatus = IF o.status = "" THEN "unknown" ELSE o.status,
             !.modelLoaded = o.model_loaded,
             !.serviceName = IF o.service = "" THEN "Unknown service"
                             ELSE o.service,
             !.lastCheckTime = "now",
             !.isInitialized = TRUE]

\* a catch-block that also forgets the store was initialized
healthCheckFailureReverts(st, o) ==
  [st EXCEPT !.error = "Could not connect to server",
             !.serverStatus = "error", !.modelLoaded = FALSE,
             !.lastCheckTime = "now", !.isInitialized = FALSE]

\* the catch-block of checkServerHealth
healthCheckFailure(st, o) ==
  LET classified ==
        IF o.kind = "http"
        THEN IF o.code = 503
             THEN [st EXCEPT !.error = "Service is temporarily unavailable",
                             !.serverStatus = "unhealthy"]
             ELSE IF o.code = 500
             THEN [st EXCEPT !.error = "Internal server error",
                             !.serverStatus = "error"]
             ELSE [st EXCEPT !.error = "Server error: " \o ToString(o.code),
                             !.serverStatus = "error"]
        ELSE IF o.kind = "noresponse"
        THEN [st EXCEPT !.error = "Could not connect to server",
                        !.serverStatus = "error"]
        ELSE IF o.kind = "setup"
        THEN [st EXCEPT !.error = "Request error: " \o o.message,
                        !.serverStatus = "error"]
        ELSE \* 200 without a body: throw new Error('Invalid server response')
             [st EXCEPT !.error = "Request error: Invalid server response",
                        !.serverStatus = "error"]
  IN [classified EXCEPT !.modelLoaded = FALSE, !.lastCheckTime = "now"]

\* a finally-block that leaves the flag as it is
healthCheckFinallyKeeps(st) == st

\* the finally-block of checkServerHealth
healthCheckFinally(st) == [st EXCEPT !.isChecking = FALSE]

\* the value checkServerHealth resolves to
checkServerHealthReturns(o) ==
  IF o.kind = "ok" /\ o.hasData THEN o.status = "healthy" ELSE FALSE

\* checkServerHealth from the await to its return
healthCheckEnd(st, o) ==
  healthCheckFinally(IF o.kind = "ok" /\ o.hasData
                     THEN healthCheckSuccess(st, o)
                     ELSE healthCheckFailure(st, o))

isReadyForColorization ==
  /\ healthState.serverStatus = "healthy"
  /\ healthState.modelLoaded
  /\ ~healthState.isChecking

\* a caller invokes checkServerHealth(); it runs up to the await
checkServerHealth ==
  /\ healthInFlight < MaxHealthInFlight
  /\ healthState' = healthCheckBegin(healthState)
  /\ healthInFlight' = healthInFlight + 1
  /\ UNCHANGED <<booted, intervalState, restVars>>

\* the auto-initialize at module import: nextTick(() => initialize())
initialize ==
  /\ ~booted
  /\ booted' = TRUE
  /\ healthInFlight < MaxHealthInFlight
  /\ healthState' = healthCheckBegin(healthState)
  /\ healthInFlight' = healthInFlight + 1
  /\ UNCHANGED <<intervalState, restVars>>

\* get_request settles and the suspended checkServerHealth runs to its end
healthResponse(o) ==
  /\ healthInFlight > 0
  /\ healthInFlight' = healthInFlight - 1
  /\ healthState' = healthCheckEnd(healthState, o)
  /\ UNCHANGED <<booted, intervalState, restVars>>

startPeriodicHealthCheck(i) ==
  /\ intervalState[i] = "none"
  /\ \A j \in 1..(i - 1) : intervalState[j] # "none"
  /\ intervalState' = [intervalState EXCEPT ![i] = "active"]
  /\ UNCHANGED <<healthState, healthInFlight, booted, restVars>>

\* a setInterval callback that survives clearInterval
periodicTickAfterStop(i) ==
  /\ intervalState[i] # "none"
  /\ healthInFlight < MaxHealthInFlight
  /\ healthState' = healthCheckBegin(healthState)
  /\ healthInFlight' = healthInFlight + 1
  /\ UNCHANGED <<booted, intervalState, restVars>>

\* the setInterval callback
periodicTick(i) ==
  /\ intervalState[i] = "active"
  /\ healthInFlight < MaxHealthInFlight
  /\ healthState' = healthCheckBegin(healthState)
  /\ healthInFlight' = healthInFlight + 1
  /\ UNCHANGED <<booted, intervalState, restVars>>

\* the disposer returned by startPeriodicHealthCheck
stopPeriodicHealthCheck(i) ==
  /\ intervalState[i] # "none"
  /\ intervalState' = [intervalState EXCEPT ![i] = "stopped"]
  /\ UNCHANGED <<healthState, healthInFlight, booted, restVars>>

reset ==
  /\ healthState' = healthInitial
  /\ UNCHANGED <<healthInFlight, booted, intervalState, restVars>>

(* ===================== colorizationStore ================================ *)
colorizationInitial ==
  [isLoading |-> FALSE, originalImage |-> NoHandle, colorizedImage |-> NoHandle,
   error |-> NULL, uploadProgress |-> 0]

\* files offered by the user; NoFile is "no file at all"
File(size, type) == [size |-> size, type |-> type]
NoFile == File(-1, "")
Files ==
  { File(2411725, "image/jpeg"),    \* about 2.3 MB, allowed
    File(1048576, "image/webp"),    \* 1 MiB, type not allowed
    File(maxSize, "image/tiff"),    \* exactly 5 MiB, type not allowed
    File(maxSize + 1, "image/png"), \* one byte over the limit
    File(7340032, "image/gif") }    \* 7 MiB, type not allowed

\* the files offered while sessions are followed to their end: one that is
\* accepted and one that colorizeImage rejects after the session has started
SessionFiles == {File(2411725, "image/jpeg"), File(1048576, "image/webp")}

\* object URLs: URL.createObjectURL returns a fresh URL for every call
OrigHandle(id) == 2 * id - 1
ColHandle(id) == 2 * id
HandleOwner(h) == (h + 1) \div 2
IsOrigHandle(h) == h # NoHandle /\ h % 2 = 1
IsColHandle(h) == h # NoHandle /\ h % 2 = 0

\* outcomes of upload_request('colorize/', formData)
UploadOutcome(kind, code, err, message) ==
  [kind |-> kind, code |-> code, error |-> err, message |-> message]
UploadOutcomes ==
  { UploadOutcome("ok", 200, "", ""),
    UploadOutcome("http", 400, "", ""),
    UploadOutcome("http", 503, "", ""),
    UploadOutcome("http", 500, "", ""),
    UploadOutcome("http", 413, "Payload too large", ""),
    UploadOutcome("http", 404, "", ""),
    UploadOutcome("noresponse", 0, "", ""),
    UploadOutcome("setup", 0, "", "Network Error") }

\* the outcomes drawn while sessions are followed to their end
SessionOutcomes ==
  {UploadOutcome("ok", 200, "", ""), UploadOutcome("http", 500, "", "")}

\* colorizeImage with the size limit raised to 10 MB
colorizeValidationLargeLimit(f) ==
  IF f = NoFile THEN "No image file has been provided"
  ELSE IF f.size > 2 * maxSize THEN "File is too large. Maximum allowed: 5MB"
  ELSE IF f.type \notin allowedTypes
  THEN "Unsupported file format. Use JPG, JPEG, PNG or BMP"
  ELSE NULL

\* colorizeImage accepting the WEBP format the page advertises
colorizeValidationWebp(f) ==
  IF f = NoFile THEN "No image file has been provided"
  ELSE IF f.size > maxSize THEN "File is too large. Maximum allowed: 5MB"
  ELSE IF f.type \notin allowedTypes \cup {"image/webp"}
  THEN "Unsupported file format. Use JPG, JPEG, PNG or BMP"
  ELSE NULL

\* the three "previous validations" of colorizeImage: the error they set,
\* or NULL when the file passes
colorizeValidation(f) ==
  IF f = NoFile THEN "No image file has been provided"
  ELSE IF f.size > maxSize THEN "File is too large. Maximum allowed: 5MB"
  ELSE IF f.type \notin allowedTypes
  THEN "Unsupported file format. Use JPG, JPEG, PNG or BMP"
  ELSE NULL

\* colorizeImage when a validation fails: setError and return null
colorizeReject(st, f) == [st EXCEPT !.error = colorizeValidation(f)]

\* try-block of colorizeImage up to the await
colorizeBegin(st, id) ==
  [st EXCEPT !.isLoading = TRUE, !.error = NULL, !.uploadProgress = 50,
             !.originalImage = OrigHandle(id)]

\* a success path that does not keep the colorized URL in the store
colorizeSuccessNotStaged(st, id) == [st EXCEPT !.uploadProgress = 100]

\* try-block of colorizeImage after the await
colorizeSuccess(st, id) ==
  [st EXCEPT !.uploadProgress = 100, !.colorizedImage = ColHandle(id)]

\* a catch-block that reports nothing
colorizeFailureSilent(st, o) == st

\* a catch-block that does not look at the kind of failure
colorizeFailureGeneric(st, o) ==
  [st EXCEPT !.error = "Server error: Unknown error"]

\* catch-block of colorizeImage
colorizeFailure(st, o) ==
  [st EXCEPT !.error =
     IF o.kind = "http"
     THEN IF o.code = 400 THEN "Invalid image file or file too large"
          ELSE IF o.code = 503
          THEN "Colorization service is not available. Please try again later"
          ELSE IF o.code = 500
          THEN "Internal server error. Please try again later"
          ELSE "Server error: " \o
               (IF o.error # "" THEN o.error ELSE "Unknown error")
     ELSE IF o.kind = "noresponse"
     THEN "Could not connect to server. Please check your connection"
     ELSE "Request error: " \o o.message]

\* a finally-block that forgets setUploadProgress(0)
colorizeFinallyKeepsProgress(st) == [st EXCEPT !.isLoading = FALSE]

\* a finally-block that forgets setLoading(false)
colorizeFinallyKeepsLoading(st) == [st EXCEPT !.uploadProgress = 0]

\* finally-block of colorizeImage
colorizeFinally(st) == [st EXCEPT !.isLoading = FALSE, !.uploadProgress = 0]

\* a colorizeImage whose failure path drops the staged original
colorizeEndReleasing(st, id, o) ==
  colorizeFinally(IF o.kind = "ok" THEN colorizeSuccess(st, id)
                  ELSE [colorizeFailure(st, o)
                          EXCEPT !.originalImage = NoHandle])

\* colorizeImage from the await to its return
colorizeEnd(st, id, o) ==
  colorizeFinally(IF o.kind = "ok" THEN colorizeSuccess(st, id)
                  ELSE colorizeFailure(st, o))

\* a clearImages that releases the handles and keeps the error
clearImagesKeepsError(st) ==
  [st EXCEPT !.originalImage = NoHandle, !.colorizedImage = NoHandle,
             !.uploadProgress = 0]

clearImages(st) ==
  [st EXCEPT !.originalImage = NoHandle, !.colorizedImage = NoHandle,
             !.error = NULL, !.uploadProgress = 0]

\* the URL.revokeObjectURL calls of clearImages
revokedByClear(st) == {st.originalImage, st.colorizedImage} \ {NoHandle}

(* ============================ history ================================== *)
historyInitial ==
  [c \in 1..MaxCalls |->
     [origin |-> "none", outcome |-> "none", shown |-> <<>>, cleared |-> FALSE,
      late |-> FALSE]]

Started(c) == c \in 1..(nextCall - 1)
HomeSessions == {c \in 1..MaxCalls : Started(c) /\ history[c].origin = "home"}
IsLatestHome(c) == c \in HomeSessions /\ \A d \in HomeSessions : d <= c

\* a call wrote the pair <<p, s>> to currentProgress / currentStep
Wrote(h, c, p, s) == [h EXCEPT ![c].shown = Append(@, <<p, s>>)]
\* clearImages ran: every call started so far predates it
MarkCleared(h) ==
  [c \in 1..MaxCalls |-> IF Started(c) THEN [h[c] EXCEPT !.cleared = TRUE]
                         ELSE h[c]]

(* ============================== Home ================================== *)
NoSelection == [size |-> "", type |-> ""]

validateFileSize(f) == f.size <= maxSize

\* digits of a number below 100 after the decimal point, as parseFloat
\* prints the result of toFixed(2): trailing zeros dropped
fraction(h) ==
  IF h = 0 THEN ""
  ELSE IF h % 10 = 0 THEN "." \o ToString(h \div 10)
  ELSE IF h < 10 THEN ".0" \o ToString(h)
  ELSE "." \o ToString(h)

formatFileSize(bytes) ==
  IF bytes = 0 THEN "0 Bytes"
  ELSE LET k == 1024
           i == IF bytes < k THEN 0
                ELSE IF bytes < k * k THEN 1
                ELSE IF bytes < k * k * k THEN 2 ELSE 3
           unit == <<"Bytes", "KB", "MB", "GB">>[i + 1]
           pow == IF i = 0 THEN 1 ELSE IF i = 1 THEN k
                  ELSE IF i = 2 THEN k * k ELSE k * k * k
           \* toFixed(2): hundredths, rounded to nearest
           hundredths == (bytes * 200 + pow) \div (2 * pow)
       IN ToString(hundredths \div 100) \o fraction(hundredths % 100)
          \o " " \o unit

SimTimer(id, n) ==
  [kind |-> "sim", sess |-> id, step |-> n, delay |-> steps[n + 1].minTime]
SettleTimer(id) ==
  [kind |-> "settle", sess |-> id, step |-> 0, delay |-> SettleDelay]

\* setTimeout(callback, t.delay) with the timers q pending: the places in the
\* run order the new timer can take
InsertPositions(q, t) ==
  LET behind == {i \in 1..Len(q) : q[i].delay <= t.delay}
      first == IF behind = {} THEN 1
               ELSE 1 + CHOOSE i \in behind : \A j \in behind : j <= i
  IN first..(Len(q) + 1)
InsertAt(q, p, t) == SubSeq(q, 1, p - 1) \o <<t>> \o SubSeq(q, p, Len(q))
setTimeout(q, t) == {InsertAt(q, p, t) : p \in InsertPositions(q, t)}

\* processImageFile from "Reset states" to the await of colorizeImage, or to
\* its catch-block when colorizeImage returns null at once
startSession(f) ==
  /\ nextCall <= MaxCalls
  /\ LET id == nextCall
         msg == colorizeValidation(f)
     IN /\ nextCall' = nextCall + 1
        \* simulateProgress(): first advanceStep() and its setTimeout
        /\ timers' \in setTimeout(timers, SimTimer(id, 0))
        /\ IF msg # NULL
           THEN /\ colorizationState' = colorizeReject(colorizationState, f)
                /\ lastResult' = NoHandle
                /\ showProgress' = FALSE
                /\ currentProgress' = 0
                /\ currentStep' = 0
                /\ error' = IF colorizationState'.error # NULL
                            THEN colorizationState'.error
                            ELSE "Failed to process image"
                /\ history' = [history EXCEPT ![id] =
                     [origin |-> "home", outcome |-> "rejected",
                      shown |-> << <<0, 0>> >>, cleared |-> FALSE,
                      late |-> FALSE]]
                /\ UNCHANGED <<pending, liveHandles, downloaded>>
           ELSE /\ colorizationState' = colorizeBegin(colorizationState, id)
                /\ pending' = pending \cup {[id |-> id, home |-> TRUE]}
                /\ liveHandles' = liveHandles \cup {OrigHandle(id)}
                /\ showProgress' = TRUE
                /\ currentProgress' = steps[1].progress
                /\ currentStep' = steps[1].step
                /\ error' = NULL
                /\ history' = [history EXCEPT ![id] =
                     [origin |-> "home", outcome |-> "pending",
                      shown |-> << <<steps[1].progress, steps[1].step>> >>,
                      cleared |-> FALSE, late |-> FALSE]]
                /\ UNCHANGED <<lastResult, downloaded>>

\* processImageFile without the readiness check
processImageFileUngated(f) ==
  IF ~validateFileSize(f)
  THEN /\ error' = "File too large: " \o formatFileSize(f.size) \o
                   ". Maximum allowed: 5MB. Please choose a smaller image."
       /\ UNCHANGED <<storeVars, showProgress, currentProgress, currentStep,
                      timers, history>>
  ELSE startSession(f)

\* processImageFile up to its first suspension or return
processImageFile(f) ==
  IF ~isReadyForColorization
  THEN /\ error' = IF healthState.error # NULL THEN healthState.error
                   ELSE "Server is not ready. Please wait..."
       /\ UNCHANGED <<storeVars, showProgress, currentProgress, currentStep,
                      timers, history>>
  ELSE IF ~validateFileSize(f)
  THEN /\ error' = "File too large: " \o formatFileSize(f.size) \o
                   ". Maximum allowed: 5MB. Please choose a smaller image."
       /\ UNCHANGED <<storeVars, showProgress, currentProgress, currentStep,
                      timers, history>>
  ELSE startSession(f)

\* processImageFile(f) suspends at the await of colorizeImage
suspends(f) ==
  isReadyForColorization /\ validateFileSize(f) /\ colorizeValidation(f) = NULL

\* handlers whose size message names the limit and not the file's size
acceptFileLimitOnly(f) ==
  IF f = NoFile
  THEN UNCHANGED <<error, selectedFile, storeVars, showProgress,
                   currentProgress, currentStep, timers, history>>
  ELSE IF ~validateFileSize(f)
  THEN /\ error' = "File too large. Maximum allowed: 5MB."
       /\ selectedFile' = NoSelection
       /\ UNCHANGED <<storeVars, showProgress, currentProgress, currentStep,
                      timers, history>>
  ELSE /\ processImageFile(f)
       /\ selectedFile' = IF suspends(f)
                          THEN [size |-> formatFileSize(f.size),
                                type |-> f.type]
                          ELSE NoSelection

\* the part shared by handleDrop and handleFileSelect
acceptFile(f) ==
  IF f = NoFile
  THEN UNCHANGED <<error, selectedFile, storeVars, showProgress,
                   currentProgress, currentStep, timers, history>>
  ELSE IF ~validateFileSize(f)
  THEN /\ error' = "File too large: " \o formatFileSize(f.size) \o
                   ". Maximum allowed: 5MB."
       /\ selectedFile' = NoSelection
       /\ UNCHANGED <<storeVars, showProgress, currentProgress, currentStep,
                      timers, history>>
  ELSE /\ processImageFile(f)
       /\ selectedFile' = IF suspends(f)
                          THEN [size |-> formatFileSize(f.size),
                                type |-> f.type]
                          ELSE NoSelection

handleDrop(f) ==
  /\ dragCounter' = 0
  /\ isDragging' = FALSE
  /\ acceptFile(f)
  /\ UNCHANGED <<healthVars, showResult>>

handleFileSelect(f) ==
  /\ acceptFile(f)
  /\ UNCHANGED <<healthVars, showResult, dragCounter, isDragging>>

\* a drag-enter that does not consult readiness
dragEnterUngated(ready, counter, dragging) ==
  [dragCounter |-> counter + 1, isDragging |-> TRUE]

\* what handleDragEnter does to dragCounter and isDragging
dragEnter(ready, counter, dragging) ==
  IF ~ready THEN [dragCounter |-> counter, isDragging |-> dragging]
  ELSE [dragCounter |-> counter + 1, isDragging |-> TRUE]

\* the v-if of the DragModal overlay
dragModalShown == isDragging /\ isReadyForColorization

handleDragEnter ==
  /\ dragCounter < MaxDragDepth
  /\ LET after == dragEnter(isReadyForColorization, dragCounter, isDragging)
     IN /\ dragCounter' = after.dragCounter
        /\ isDragging' = after.isDragging
  /\ error' = IF isReadyForColorization THEN NULL ELSE error
  /\ UNCHANGED <<healthVars, storeVars, showProgress, showResult,
                 currentProgress, currentStep, selectedFile, timers, history>>

\* a drag-leave that forgets to reset the counter
handleDragLeaveNoReset ==
  /\ dragCounter' = dragCounter - 1
  /\ isDragging' = IF dragCounter - 1 <= 0 THEN FALSE ELSE isDragging
  /\ UNCHANGED <<healthVars, storeVars, showProgress, showResult,
                 currentProgress, currentStep, error, selectedFile, timers,
                 history>>

handleDragLeave ==
  /\ IF dragCounter - 1 <= 0
     THEN dragCounter' = 0 /\ isDragging' = FALSE
     ELSE dragCounter' = dragCounter - 1 /\ UNCHANGED isDragging
  /\ UNCHANGED <<healthVars, storeVars, showProgress, showResult,
                 currentProgress, currentStep, error, selectedFile, timers,
                 history>>

(* ---- the landing view of part_000: the same drop zone, no stores ---- *)
handleDropLanding ==
  /\ dragCounter' = 0
  /\ isDragging' = FALSE
  /\ UNCHANGED <<healthVars, storeVars, showProgress, showResult,
                 currentProgress, currentStep, error, selectedFile, timers,
                 history>>

handleDragEnterLanding ==
  /\ dragCounter < MaxDragDepth
  /\ dragCounter' = dragCounter + 1
  /\ isDragging' = TRUE
  /\ UNCHANGED <<healthVars, storeVars, showProgress, showResult,
                 currentProgress, currentStep, error, selectedFile, timers,
                 history>>

handleDragLeaveLanding ==
  /\ IF dragCounter - 1 <= 0
     THEN dragCounter' = 0 /\ isDragging' = FALSE
     ELSE dragCounter' = dragCounter - 1 /\ UNCHANGED isDragging
  /\ UNCHANGED <<healthVars, storeVars, showProgress, showResult,
                 currentProgress, currentStep, error, selectedFile, timers,
                 history>>

\* the close button of the error notification: @click="error = null"
dismissError ==
  /\ error # NULL
  /\ error' = NULL
  /\ UNCHANGED <<healthVars, storeVars, isDragging, dragCounter, showProgress,
                 showResult, currentProgress, currentStep, selectedFile,
                 timers, history>>

\* the simulator of session c has shown its last configured step
SimulatorDone(c) ==
  \/ /\ history[c].shown # <<>>
     /\ history[c].shown[Len(history[c].shown)] =
          <<steps[Len(steps)].progress, steps[Len(steps)].step>>
  \/ ~\E i \in 1..Len(timers) : timers[i].kind = "sim" /\ timers[i].sess = c

\* upload_request settles: colorizeImage runs from its await to its return,
\* and, for a call made by Home, processImageFile and the drop / select
\* handler run from their await to their end
uploadResponse(c, o) ==
  /\ c \in pending
  /\ pending' = pending \ {c}
  /\ colorizationState' = colorizeEnd(colorizationState, c.id, o)
  /\ liveHandles' = IF o.kind = "ok" THEN liveHandles \cup {ColHandle(c.id)}
                    ELSE liveHandles
  /\ lastResult' = IF o.kind = "ok" THEN ColHandle(c.id) ELSE NoHandle
  /\ IF ~c.home
     THEN /\ history' = [history EXCEPT ![c.id].outcome =
                           IF o.kind = "ok" THEN "ok" ELSE "failed"]
          /\ UNCHANGED <<showProgress, currentProgress, currentStep, error,
                         selectedFile, timers>>
     ELSE IF lastResult' # NoHandle
     THEN \* success: force 100% and the final step, then the settle delay
          /\ currentProgress' = 100
          /\ currentStep' = 4
          /\ timers' \in setTimeout(timers, SettleTimer(c.id))
          /\ selectedFile' = NoSelection
          /\ history' = [Wrote(history, c.id, 100, 4)
                           EXCEPT ![c.id].outcome = "ok",
                                  ![c.id].late = SimulatorDone(c.id)]
          /\ UNCHANGED <<showProgress, error>>
     ELSE \* throw new Error(colorizationStore.error || ...) and the catch
          /\ showProgress' = FALSE
          /\ currentProgress' = 0
          /\ currentStep' = 0
          /\ error' = IF colorizationState'.error # NULL
                      THEN colorizationState'.error
                      ELSE "Failed to process image"
          /\ selectedFile' = NoSelection
          /\ history' = [Wrote(history, c.id, 0, 0)
                           EXCEPT ![c.id].outcome = "failed"]
          /\ UNCHANGED timers
  /\ UNCHANGED <<healthVars, nextCall, downloaded, isDragging, dragCounter,
                 showResult>>

(* ---- timers ---- *)
\* a callback that advances two steps at a time
advanceStepSkipping ==
  /\ timers # <<>>
  /\ Head(timers).kind = "sim"
  /\ LET t == Head(timers)
         n == t.step + 2
     IN IF n < Len(steps)
        THEN /\ currentProgress' = steps[n + 1].progress
             /\ currentStep' = steps[n + 1].step
             /\ timers' \in setTimeout(Tail(timers), SimTimer(t.sess, n))
             /\ history' = Wrote(history, t.sess, steps[n + 1].progress,
                                 steps[n + 1].step)
        ELSE /\ timers' = Tail(timers)
             /\ UNCHANGED <<currentProgress, currentStep, history>>
  /\ UNCHANGED <<healthVars, storeVars, isDragging, dragCounter, showProgress,
                 showResult, error, selectedFile>>

\* the setTimeout callback of simulateProgress: step++ ; advanceStep()
advanceStep ==
  /\ timers # <<>>
  /\ Head(timers).kind = "sim"
  /\ LET t == Head(timers)
         n == t.step + 1
     IN IF n < Len(steps)
        THEN /\ currentProgress' = steps[n + 1].progress
             /\ currentStep' = steps[n + 1].step
             /\ timers' \in setTimeout(Tail(timers), SimTimer(t.sess, n))
             /\ history' = Wrote(history, t.sess, steps[n + 1].progress,
                                 steps[n + 1].step)
        ELSE /\ timers' = Tail(timers)
             /\ UNCHANGED <<currentProgress, currentStep, history>>
  /\ UNCHANGED <<healthVars, storeVars, isDragging, dragCounter, showProgress,
                 showResult, error, selectedFile>>

\* the setTimeout callback of the success branch of processImageFile
settleTimeout ==
  /\ timers # <<>>
  /\ Head(timers).kind = "settle"
  /\ showProgress' = FALSE
  /\ showResult' = TRUE
  /\ timers' = Tail(timers)
  /\ UNCHANGED <<healthVars, storeVars, isDragging, dragCounter,
                 currentProgress, currentStep, error, selectedFile, history>>

(* ---- modal handlers ---- *)
\* clearProgressSimulation() and colorizationStore.clearImages()
clearStore ==
  /\ colorizationState' = clearImages(colorizationState)
  /\ liveHandles' = liveHandles \ revokedByClear(colorizationState)
  /\ history' = MarkCleared(history)
  /\ UNCHANGED <<pending, nextCall, lastResult, downloaded>>

\* emitted by ColorizationProgress, which is mounted while showProgress
handleCancelProgress ==
  /\ showProgress
  /\ showProgress' = FALSE
  /\ currentProgress' = 0
  /\ currentStep' = 0
  /\ clearStore
  /\ UNCHANGED <<healthVars, isDragging, dragCounter, showResult, error,
                 selectedFile, timers>>

\* emitted by ColorizationResult, which is mounted while showResult
handleTryAnother ==
  /\ showResult
  /\ showResult' = FALSE
  /\ clearStore
  /\ UNCHANGED <<healthVars, isDragging, dragCounter, showProgress,
                 currentProgress, currentStep, error, selectedFile, timers>>

handleCloseResult ==
  /\ showResult
  /\ showResult' = FALSE
  /\ clearStore
  /\ UNCHANGED <<healthVars, isDragging, dragCounter, showProgress,
                 currentProgress, currentStep, error, selectedFile, timers>>

(* ---- direct callers of the colorization store ---- *)
colorizeImage(f) ==
  /\ IF colorizeValidation(f) # NULL
     THEN /\ colorizationState' = colorizeReject(colorizationState, f)
          /\ lastResult' = NoHandle
          /\ UNCHANGED <<pending, nextCall, liveHandles, downloaded, history>>
     ELSE /\ nextCall <= MaxCalls
          /\ nextCall' = nextCall + 1
          /\ colorizationState' = colorizeBegin(colorizationState, nextCall)
          /\ pending' = pending \cup {[id |-> nextCall, home |-> FALSE]}
          /\ liveHandles' = liveHandles \cup {OrigHandle(nextCall)}
          /\ history' = [history EXCEPT ![nextCall] =
               [origin |-> "direct", outcome |-> "pending", shown |-> <<>>,
                cleared |-> FALSE, late |-> FALSE]]
          /\ UNCHANGED <<lastResult, downloaded>>
  /\ UNCHANGED <<healthVars, homeVars>>

clearImagesCall ==
  /\ clearStore
  /\ UNCHANGED <<healthVars, homeVars>>

\* what the try-block of downloadColorizedImage does: the link is clicked
\* and removed, or a DOM call throws before or after the click
DownloadOutcomes == {"saved", "throwsBeforeClick", "throwsAfterClick"}

\* a download that starts with clearError()
downloadColorizedImageClearsError(d) ==
  /\ IF colorizationState.colorizedImage = NoHandle
     THEN /\ colorizationState' =
               [colorizationState EXCEPT
                  !.error = "No colorized image available for download"]
          /\ UNCHANGED downloaded
     ELSE /\ downloaded' = IF d = "throwsBeforeClick" THEN downloaded
                           ELSE colorizationState.colorizedImage
          /\ colorizationState' =
               IF d = "saved" THEN [colorizationState EXCEPT !.error = NULL]
               ELSE [colorizationState EXCEPT
                       !.error = "Error downloading the image"]
  /\ UNCHANGED <<healthVars, homeVars, pending, nextCall, liveHandles,
                 lastResult, history>>

downloadColorizedImage(d) ==
  /\ IF colorizationState.colorizedImage = NoHandle
     THEN /\ colorizationState' =
               [colorizationState EXCEPT
                  !.error = "No colorized image available for download"]
          /\ UNCHANGED downloaded
     ELSE /\ downloaded' = IF d = "throwsBeforeClick" THEN downloaded
                           ELSE colorizationState.colorizedImage
          /\ colorizationState' =
               IF d = "saved" THEN colorizationState
               ELSE [colorizationState EXCEPT
                       !.error = "Error downloading the image"]
  /\ UNCHANGED <<healthVars, homeVars, pending, nextCall, liveHandles,
                 lastResult, history>>

(* ========================= specification =============================== *)
Init ==
  /\ healthState = healthInitial
  /\ healthInFlight = 0
  /\ booted = FALSE
  /\ intervalState = [i \in 1..MaxIntervals |-> "none"]
  /\ colorizationState = colorizationInitial
  /\ pending = {}
  /\ nextCall = 1
  /\ liveHandles = {}
  /\ lastResult = NoHandle
  /\ downloaded = NoHandle
  /\ isDragging = FALSE
  /\ dragCounter = 0
  /\ showProgress = FALSE
  /\ showResult = FALSE
  /\ currentProgress = 0
  /\ currentStep = 0
  /\ error = NULL
  /\ selectedFile = NoSelection
  /\ timers = <<>>
  /\ history = historyInitial

HealthNext ==
  \/ checkServerHealth
  \/ initialize
  \/ \E o \in HealthOutcomes : healthResponse(o)
  \/ \E i \in 1..MaxIntervals : startPeriodicHealthCheck(i)
  \/ \E i \in 1..MaxIntervals : periodicTick(i)
  \/ \E i \in 1..MaxIntervals : stopPeriodicHealthCheck(i)
  \/ reset

\* the stores and Home right after a successful first health check
ReadyInit ==
  /\ healthState = healthCheckEnd(healthCheckBegin(healthInitial),
                                  HealthOk("healthy", TRUE, "colorizer"))
  /\ healthInFlight = 0
  /\ booted = TRUE
  /\ intervalState = [i \in 1..MaxIntervals |-> "none"]
  /\ colorizationState = colorizationInitial
  /\ pending = {}
  /\ nextCall = 1
  /\ liveHandles = {}
  /\ lastResult = NoHandle
  /\ downloaded = NoHandle
  /\ isDragging = FALSE
  /\ dragCounter = 0
  /\ showProgress = FALSE
  /\ showResult = FALSE
  /\ currentProgress = 0
  /\ currentStep = 0
  /\ error = NULL
  /\ selectedFile = NoSelection
  /\ timers = <<>>
  /\ history = historyInitial

\* sessions: the colorization store, the progress simulator and the modals
Next ==
  \/ \E f \in SessionFiles : handleDrop(f)
  \/ \E f \in SessionFiles : handleFileSelect(f)
  \/ \E c \in pending, o \in SessionOutcomes : uploadResponse(c, o)
  \/ advanceStep
  \/ settleTimeout
  \/ handleCancelProgress
  \/ handleTryAnother
  \/ handleCloseResult

Spec == ReadyInit /\ [][Next]_vars

\* sessions that run to their end: nobody presses cancel
RunNext ==
  \/ \E f \in SessionFiles : handleDrop(f)
  \/ \E f \in SessionFiles : handleFileSelect(f)
  \/ \E c \in pending, o \in SessionOutcomes : uploadResponse(c, o)
  \/ advanceStep
  \/ settleTimeout
  \/ handleTryAnother
  \/ handleCloseResult

RunSpec == ReadyInit /\ [][RunNext]_vars

\* the colorization store driven through its own API, whoever the caller
StoreNext ==
  \/ \E f \in Files \cup {NoFile} : colorizeImage(f)
  \/ \E c \in pending, o \in UploadOutcomes : uploadResponse(c, o)
  \/ clearImagesCall
  \/ \E d \in DownloadOutcomes : downloadColorizedImage(d)

StoreSpec == ReadyInit /\ [][StoreNext]_vars

\* a health answer that makes the backend ready and one that fails
LiveOutcomes ==
  {HealthOk("healthy", TRUE, "colorizer"), HealthFail("http", 503, "")}

\* health checks and sessions side by side, nobody pressing cancel
LiveNext ==
  \/ checkServerHealth
  \/ \E o \in LiveOutcomes : healthResponse(o)
  \/ \E f \in SessionFiles : nextCall <= MaxLiveSessions /\ handleDrop(f)
  \/ \E c \in pending, o \in SessionOutcomes : uploadResponse(c, o)
  \/ advanceStep
  \/ settleTimeout

\* every issued request is answered and every pending timer runs
LiveSpec ==
  /\ ReadyInit
  /\ [][LiveNext]_vars
  /\ WF_vars(\E o \in LiveOutcomes : healthResponse(o))
  /\ WF_vars(\E c \in pending, o \in SessionOutcomes : uploadResponse(c, o))
  /\ WF_vars(advanceStep)
  /\ WF_vars(settleTimeout)

\* the health monitor alone
HealthSpec == Init /\ [][HealthNext]_vars

\* the health monitor without reset(): initialize, the periodic timer and
\* direct callers of checkServerHealth
CheckNext ==
  \/ checkServerHealth
  \/ initialize
  \/ \E o \in HealthOutcomes : healthResponse(o)
  \/ \E i \in 1..MaxIntervals : startPeriodicHealthCheck(i)
  \/ \E i \in 1..MaxIntervals : periodicTick(i)
  \/ \E i \in 1..MaxIntervals : stopPeriodicHealthCheck(i)

CheckSpec == Init /\ [][CheckNext]_vars

\* the health monitor with initialize and the periodic schedules as the
\* only callers of checkServerHealth
PeriodicNext ==
  \/ initialize
  \/ \E o \in HealthOutcomes : healthResponse(o)
  \/ \E i \in 1..MaxIntervals : startPeriodicHealthCheck(i)
  \/ \E i \in 1..MaxIntervals : periodicTick(i)
  \/ \E i \in 1..MaxIntervals : stopPeriodicHealthCheck(i)

PeriodicSpec == Init /\ [][PeriodicNext]_vars

\* readiness changes, the handlers that check readiness, and direct calls of
\* colorizeImage; uploads stay in flight
GateNext ==
  \/ initialize
  \/ checkServerHealth
  \/ \E o \in GateOutcomes : healthResponse(o)
  \/ \E f \in Files \cup {NoFile} : handleDrop(f)
  \/ \E f \in Files \cup {NoFile} : handleFileSelect(f)
  \/ dismissError
  \/ \E f \in Files \cup {NoFile} : colorizeImage(f)

GateSpec == Init /\ [][GateNext]_vars

\* readiness changes and the drag handlers of the drop zone
DragNext ==
  \/ initialize
  \/ checkServerHealth
  \/ \E o \in GateOutcomes : healthResponse(o)
  \/ handleDragEnter
  \/ handleDragLeave
  \/ \E f \in {NoFile, File(7340032, "image/gif")} : handleDrop(f)

DragSpec == Init /\ [][DragNext]_vars

\* the drag handlers of both versions of the view on one drop zone
DragBothNext ==
  \/ initialize
  \/ checkServerHealth
  \/ \E o \in GateOutcomes : healthResponse(o)
  \/ handleDragEnter
  \/ handleDragLeave
  \/ \E f \in {NoFile, File(7340032, "image/gif")} : handleDrop(f)
  \/ handleDragEnterLanding
  \/ handleDragLeaveLanding
  \/ handleDropLanding

DragBothSpec == Init /\ [][DragBothNext]_vars

\* the three ways a file enters, on a ready backend; uploads stay in flight
EntryNext ==
  \/ \E f \in Files \cup {NoFile} : handleDrop(f)
  \/ \E f \in Files \cup {NoFile} : handleFileSelect(f)
  \/ \E f \in Files \cup {NoFile} : colorizeImage(f)
  \/ dismissError

EntrySpec == ReadyInit /\ [][EntryNext]_vars

(* ============================ properties =============================== *)
PlanPairs == [i \in 1..Len(steps) |-> <<steps[i].progress, steps[i].step>>]
Done == <<100, 4>>
SettlingSessions ==
  {timers[i].sess : i \in {j \in 1..Len(timers) : timers[j].kind = "settle"}}
\* the upload of session c succeeded before its simulator had shown the last
\* configured step
EarlySuccess(c) ==
  c \in HomeSessions /\ history[c].outcome = "ok" /\ ~history[c].late
LateSuccess(c) ==
  c \in HomeSessions /\ history[c].outcome = "ok" /\ history[c].late

\* every pending timer was created by session c
OnlyOwnTimers(c) == \A i \in 1..Len(timers) : timers[i].sess = c

\* C1: while the progress view of a session whose upload succeeded before the
\* last configured step waits out the settle delay, the displayed pair is
\* (100, 4).
C1_ForcedCompletionHeld ==
  \A c \in SettlingSessions :
    (IsLatestHome(c) /\ EarlySuccess(c) /\ showProgress /\ OnlyOwnTimers(c))
      => <<currentProgress, currentStep>> = Done

C3_AbandonedOnFailure ==
  \A c \in HomeSessions :
    (/\ IsLatestHome(c)
     /\ history[c].outcome \in {"failed", "rejected"}
     /\ OnlyOwnTimers(c)
     /\ pending = {})
      => <<currentProgress, currentStep>> = <<0, 0>>

\* C4: at most one original-image handle and at most one colorized-image
\* handle is live at any time.
C4_OneHandlePerRole ==
  /\ Cardinality({h \in liveHandles : IsOrigHandle(h)}) <= 1
  /\ Cardinality({h \in liveHandles : IsColHandle(h)}) <= 1

\* C5: originalImage and colorizedImage never hold a handle of a session that
\* was started before the most recent clearImages.
C5_NoStaleHandleAfterClear ==
  \A h \in {colorizationState.originalImage,
            colorizationState.colorizedImage} \ {NoHandle} :
    ~history[HandleOwner(h)].cleared

\* C6: isChecking is true exactly while a checkServerHealth call is in
\* flight.
C6_CheckingIffInFlight ==
  healthState.isChecking <=> (healthInFlight > 0)

SizeError == "File is too large. Maximum allowed: 5MB"
FormatError == "Unsupported file format. Use JPG, JPEG, PNG or BMP"
StoreUntouched ==
  /\ pending' = pending
  /\ liveHandles' = liveHandles
  /\ colorizationState'.originalImage = colorizationState.originalImage
  /\ colorizationState'.colorizedImage = colorizationState.colorizedImage
  /\ colorizationState'.isLoading = colorizationState.isLoading
  /\ (pending = {} => ~colorizationState'.isLoading)

\* C7: for a file larger than 5 MiB, colorizeImage returns null with the size
\* error, issues no upload, stages no handle and does not set isLoading; Home's
\* drop and file-picker handlers do not touch the store or the network.
C7_OversizeRejected ==
  [][\A f \in Files : f.size > maxSize =>
       /\ colorizeImage(f) =>
            /\ lastResult' = NoHandle
            /\ colorizationState'.error = SizeError
            /\ StoreUntouched
       /\ (handleDrop(f) \/ handleFileSelect(f)) =>
            /\ colorizationState' = colorizationState
            /\ StoreUntouched
            /\ timers' = timers]_vars
C7_Witness ==
  /\ colorizationState.error = SizeError
  /\ lastResult = NoHandle
  /\ error = "File too large: 7 MB. Maximum allowed: 5MB."
  /\ pending = {}
  /\ liveHandles = {}
  /\ ~colorizationState.isLoading

\* C8 as stated: for a file whose type is outside the allow-list,
\* colorizeImage returns null with the unsupported-format error, issues no
\* upload, stages no original handle and does not set isLoading.
C8_BadTypeFormatError ==
  [][\A f \in Files : (f.type \notin allowedTypes /\ colorizeImage(f)) =>
       /\ lastResult' = NoHandle
       /\ colorizationState'.error = FormatError
       /\ StoreUntouched]_vars

\* C8 amended: such a file is rejected before any network call (null, no
\* upload, no handle, isLoading not set); the error is the unsupported-format
\* error when the file is within the size limit and the size error otherwise.
C8_BadTypeRejected ==
  [][\A f \in Files : (f.type \notin allowedTypes /\ colorizeImage(f)) =>
       /\ lastResult' = NoHandle
       /\ colorizationState'.error =
            IF f.size <= maxSize THEN FormatError ELSE SizeError
       /\ StoreUntouched]_vars
C8_Witness ==
  /\ colorizationState.error = FormatError
  /\ lastResult = NoHandle
  /\ pending = {}
  /\ liveHandles = {}
  /\ ~colorizationState.isLoading

NotReadyError ==
  IF healthState.error # NULL THEN healthState.error
  ELSE "Server is not ready. Please wait..."
NothingStarted ==
  /\ UNCHANGED <<colorizationState, pending, nextCall, liveHandles, timers,
                 showProgress, currentProgress, currentStep>>

\* C9 as stated: a file dropped or picked while the backend is not ready
\* fails with the health monitor's error or the generic message, and starts
\* nothing.
C9_NotReadyFailsWithHealthError ==
  [][\A f \in Files :
       (~isReadyForColorization /\ (handleDrop(f) \/ handleFileSelect(f))) =>
         /\ error' = NotReadyError
         /\ NothingStarted]_vars

\* C9 amended: while the backend is not ready no attempt starts anything; a
\* file within the size limit fails with the health monitor's error or the
\* generic message, an oversized file with the size message.
C9_NotReadyStartsNothing ==
  [][\A f \in Files :
       (~isReadyForColorization /\ (handleDrop(f) \/ handleFileSelect(f))) =>
         /\ error' = IF f.size <= maxSize THEN NotReadyError
                     ELSE "File too large: " \o formatFileSize(f.size) \o
                          ". Maximum allowed: 5MB."
         /\ NothingStarted]_vars
C9_Witness ==
  /\ ~isReadyForColorization
  /\ healthState.error # NULL
  /\ error = healthState.error
  /\ pending = {}
  /\ ~showProgress

\* C10 as stated: isInitialized never reverts from true to false.
C10_InitializedMonotonic ==
  [][healthState.isInitialized => healthState'.isInitialized]_vars

\* C10 amended: isInitialized reverts from true to false only in reset();
\* no checkServerHealth call, whatever its outcome, reverts it.
C10_InitializedRevertsOnlyInReset ==
  [][(healthState.isInitialized /\ ~healthState'.isInitialized) => reset]_vars
C10_Witness ==
  /\ healthState.isInitialized
  /\ healthState.serverStatus = "error"
  /\ healthState.error # NULL

\* C11: once a checkServerHealth call has completed (lastCheckTime is
\* recorded, on success and on failure), isInitialized is true.
C11_InitializedAfterFirstCheck ==
  healthState.lastCheckTime # NULL => healthState.isInitialized

FailedOutcomes == {o \in HealthOutcomes : ~(o.kind = "ok" /\ o.hasData)}
\* C12: a checkServerHealth call whose request fails returns false and
\* leaves isChecking false, modelLoaded false, lastCheckTime recorded, a
\* non-empty error, and serverStatus "unhealthy" for HTTP 503 and "error"
\* for every other failure.
C12_FailedCheckClassified ==
  [][\A o \in FailedOutcomes : healthResponse(o) =>
       /\ ~checkServerHealthReturns(o)
       /\ ~healthState'.isChecking
       /\ ~healthState'.modelLoaded
       /\ healthState'.lastCheckTime # NULL
       /\ healthState'.error \notin {NULL, ""}
       /\ healthState'.serverStatus =
            IF o.kind = "http" /\ o.code = 503 THEN "unhealthy"
            ELSE "error"]_vars
C12_Witness ==
  /\ healthState.serverStatus = "unhealthy"
  /\ healthState.error = "Service is temporarily unavailable"
  /\ ~healthState.isChecking
  /\ ~healthState.modelLoaded
  /\ healthState.lastCheckTime # NULL
  /\ healthInFlight = 0

\* C14: under the fairness of LiveSpec, every started checkServerHealth
\* leads to isChecking false, and every started session leads to isLoading
\* false with the progress view hidden.
C14_NeverLoadingForever ==
  /\ (healthInFlight > 0) ~> ~healthState.isChecking
  /\ (pending # {} \/ showProgress) ~>
       (~colorizationState.isLoading /\ ~showProgress)
C14_Witness ==
  /\ nextCall > 1
  /\ pending = {}
  /\ ~colorizationState.isLoading
  /\ ~showProgress
  /\ showResult
  /\ healthInFlight = 0
  /\ ~healthState.isChecking
  /\ healthState.serverStatus = "unhealthy"

NonEmpty(msg) == msg \notin {NULL, ""}
\* C13: every failing path of colorizeImage (missing file, oversize, bad
\* type, HTTP error, no response, request error) returns null and leaves a
\* non-empty error; once no call is in flight isLoading is false.
C13_FailuresRecovered ==
  [][/\ \A f \in Files \cup {NoFile} :
          (colorizeValidation(f) # NULL /\ colorizeImage(f)) =>
            /\ lastResult' = NoHandle
            /\ NonEmpty(colorizationState'.error)
            /\ (pending' = {} => ~colorizationState'.isLoading)
     /\ \A c \in pending, o \in UploadOutcomes :
          (o.kind # "ok" /\ uploadResponse(c, o)) =>
            /\ lastResult' = NoHandle
            /\ NonEmpty(colorizationState'.error)
            /\ (pending' = {} => ~colorizationState'.isLoading)]_vars
C13_Witness ==
  /\ nextCall > 1
  /\ pending = {}
  /\ lastResult = NoHandle
  /\ ~colorizationState.isLoading
  /\ colorizationState.error =
       "Could not connect to server. Please check your connection"

Staged == revokedByClear(colorizationState)
ReleasedAndReset ==
  /\ colorizationState'.originalImage = NoHandle
  /\ colorizationState'.colorizedImage = NoHandle
  /\ colorizationState'.error = NULL
  /\ colorizationState'.uploadProgress = 0
  /\ colorizationState'.isLoading = colorizationState.isLoading
  /\ Staged \subseteq liveHandles
  /\ liveHandles' = liveHandles \ Staged

\* C15 as stated: clearImages releases every staged handle, each revoked
\* once, clears error and sets uploadProgress to 0; called when nothing is
\* staged it revokes nothing and leaves the state unchanged.
C15_ClearLeavesIdleUnchanged ==
  [][clearImagesCall =>
       /\ ReleasedAndReset
       /\ (Staged = {} => UNCHANGED <<colorizationState, liveHandles>>)]_vars

\* C15 amended: clearImages releases every staged handle, each revoked once,
\* clears error and sets uploadProgress to 0; called when nothing is staged
\* it revokes nothing and changes at most error and uploadProgress; a second
\* call right after a first changes nothing.
C15_ClearReleasesAndIsIdempotent ==
  /\ [][clearImagesCall =>
          /\ ReleasedAndReset
          /\ (Staged = {} => liveHandles' = liveHandles)]_vars
  /\ [](/\ clearImages(clearImages(colorizationState)) =
             clearImages(colorizationState)
        /\ revokedByClear(clearImages(colorizationState)) = {})
C15_Witness ==
  /\ colorizationState = colorizationInitial
  /\ history[1].outcome = "ok"
  /\ history[1].cleared
  /\ liveHandles \cap {OrigHandle(1), ColHandle(1)} = {}

\* C16: a download with a colorized handle staged that raises no exception
\* leaves isLoading, originalImage, colorizedImage, error and uploadProgress
\* unchanged; a download with no colorized handle staged sets an error,
\* clicks no link and changes nothing else.
C16_DownloadKeepsSession ==
  [][(\E d \in DownloadOutcomes : downloadColorizedImage(d)) =>
       /\ UNCHANGED <<pending, nextCall, liveHandles, lastResult>>
       /\ IF colorizationState.colorizedImage # NoHandle
          THEN \/ /\ colorizationState' = colorizationState
                  /\ downloaded' = colorizationState.colorizedImage
               \/ colorizationState' =
                    [colorizationState EXCEPT
                       !.error = "Error downloading the image"]
          ELSE /\ downloaded' = downloaded
               /\ colorizationState' =
                    [colorizationState EXCEPT
                       !.error = "No colorized image available for download"]
     ]_vars
C16_Witness ==
  /\ downloaded # NoHandle
  /\ downloaded = colorizationState.colorizedImage
  /\ colorizationState.error # NULL
  /\ colorizationState.error # "Error downloading the image"

\* C17: after any sequence of drag-enter, drag-leave and drop events,
\* interleaved with readiness changes, dragCounter is not negative and
\* isDragging is true exactly when dragCounter > 0.
C17_DragCounterConsistent ==
  /\ dragCounter >= 0
  /\ isDragging <=> dragCounter > 0
C17_Witness ==
  /\ dragCounter = 2
  /\ isDragging
  /\ healthState.isInitialized
  /\ ~isReadyForColorization

\* the Completed state of the first session, its result on display
Completed ==
  /\ showResult
  /\ ~showProgress
  /\ colorizationState.originalImage = OrigHandle(1)
  /\ colorizationState.colorizedImage = ColHandle(1)
  /\ {OrigHandle(1), ColHandle(1)} \subseteq liveHandles
  /\ colorizationState.error = NULL
  /\ ~colorizationState.isLoading
\* C18: starting idle and ready, one file that passes validation and whose
\* upload returns image bytes, with no cancel and no other session started,
\* ends in the Completed state: once the settle delay has passed the result
\* view is shown with both handles staged, no error and isLoading false.
C18_EndToEndSuccess ==
  /\ []((nextCall = 2 /\ showResult) => Completed)
  /\ (nextCall = 2 /\ history[1].outcome = "ok") ~>
       (Completed \/ nextCall > 2)
C18_Witness ==
  /\ nextCall = 2
  /\ history[1].outcome = "ok"
  /\ Completed
  /\ timers = <<>>

\* C19: once the disposer of a schedule has been called, that schedule
\* starts no further checkServerHealth call (every call that starts is made
\* by initialize or by a schedule that is still active); the disposer leaves
\* a check in flight alone, and that check can still complete.
C19_DisposerStopsSchedule ==
  /\ [][(healthInFlight' > healthInFlight /\ booted' = booted) =>
          \E i \in 1..MaxIntervals : intervalState[i] = "active"]_vars
  /\ [][\A i \in 1..MaxIntervals :
          stopPeriodicHealthCheck(i) =>
            UNCHANGED <<healthState, healthInFlight>>]_vars
  /\ [](healthInFlight > 0 =>
          ENABLED (\E o \in HealthOutcomes : healthResponse(o)))
C19_Witness ==
  /\ intervalState[1] = "stopped"
  /\ healthInFlight = 2
  /\ healthState.isChecking

\* C20: uploadProgress is an integer between 0 and 100, and it is 0 in every
\* state where no colorizeImage call is in flight (the finally-block and
\* clearImages reset it).
C20_UploadProgressBounded ==
  /\ colorizationState.uploadProgress \in 0..100
  /\ pending = {} => colorizationState.uploadProgress = 0
C20_Witness ==
  /\ pending = {}
  /\ nextCall > 1
  /\ colorizationState.colorizedImage # NoHandle
  /\ colorizationState.uploadProgress = 0

\* the text part occurs in the message msg
Contains(msg, part) ==
  \E i \in 1..(Len(msg) - Len(part) + 1) :
     SubSeq(msg, i, i + Len(part) - 1) = part

OtherStatus(o) == o.kind = "http" /\ o.code \notin {400, 503, 500}
ClassifiedMessage(o) ==
  IF o.kind = "http" /\ o.code = 400
  THEN "Invalid image file or file too large"
  ELSE IF o.kind = "http" /\ o.code = 503
  THEN "Colorization service is not available. Please try again later"
  ELSE IF o.kind = "http" /\ o.code = 500
  THEN "Internal server error. Please try again later"
  ELSE IF o.kind = "noresponse"
  THEN "Could not connect to server. Please check your connection"
  ELSE "Request error: " \o o.message

\* C22 as stated: an upload failure is classified into one message by the
\* server response; for an HTTP status other than 400, 503 and 500 the
\* generic server-error message carries the status code.
C22_FailureClassifiedWithStatus ==
  [][\A c \in pending, o \in UploadOutcomes :
       (o.kind # "ok" /\ uploadResponse(c, o)) =>
         IF OtherStatus(o)
         THEN /\ Contains(colorizationState'.error, "Server error: ")
              /\ Contains(colorizationState'.error, ToString(o.code))
         ELSE colorizationState'.error = ClassifiedMessage(o)]_vars

\* C22 amended: the same classification, but for another HTTP status the
\* message is "Server error: " followed by the error text of the response
\* body, or by "Unknown error" when the body has none; the status code is
\* not part of it.
C22_FailureClassified ==
  [][\A c \in pending, o \in UploadOutcomes :
       (o.kind # "ok" /\ uploadResponse(c, o)) =>
         IF OtherStatus(o)
         THEN /\ colorizationState'.error =
                   "Server error: " \o
                   (IF o.error # "" THEN o.error ELSE "Unknown error")
              /\ ~Contains(colorizationState'.error, ToString(o.code))
         ELSE colorizationState'.error = ClassifiedMessage(o)]_vars
C22_Witness ==
  /\ pending = {}
  /\ nextCall > 1
  /\ lastResult = NoHandle
  /\ colorizationState.error = "Server error: Payload too large"

\* C23: a file that fails the size or the type check, dropped or picked in
\* any readiness state, fails with a validation error, the progress view is
\* not shown for it and no simulator timer is scheduled for it.
C23_ValidationBeforeEverything ==
  [][\A f \in Files :
       (colorizeValidation(f) # NULL /\ (handleDrop(f) \/ handleFileSelect(f)))
       => /\ \/ Contains(error', "File too large")
             \/ error' = FormatError
          /\ ~showProgress'
          /\ timers' = timers]_vars

\* C24: a failed upload leaves originalImage and colorizedImage as they were
\* and revokes nothing: unless a clearImages or a later call replaced it,
\* originalImage is still the live handle staged for the attempt.  A handle
\* is revoked only in a step that runs clearImages.
C24_FailureKeepsOriginal ==
  [][/\ \A c \in pending, o \in UploadOutcomes :
          (o.kind # "ok" /\ uploadResponse(c, o)) =>
            /\ colorizationState'.originalImage =
                 colorizationState.originalImage
            /\ colorizationState'.colorizedImage =
                 colorizationState.colorizedImage
            /\ liveHandles' = liveHandles
            /\ (~history[c.id].cleared /\ nextCall = c.id + 1) =>
                 /\ colorizationState'.originalImage = OrigHandle(c.id)
                 /\ OrigHandle(c.id) \in liveHandles'
     /\ (liveHandles \ liveHandles' # {}) =>
          /\ liveHandles \ liveHandles' = revokedByClear(colorizationState)
          /\ colorizationState' = clearImages(colorizationState)]_vars
C24_Witness ==
  /\ pending = {}
  /\ nextCall = 2
  /\ history[1].outcome = "failed"
  /\ colorizationState.originalImage = OrigHandle(1)
  /\ colorizationState.colorizedImage = NoHandle
  /\ OrigHandle(1) \in liveHandles

\* C25: while the progress view of the latest session is shown, a simulator
\* timer that belongs to an earlier session (cancelled, failed or completed)
\* does not change currentProgress / currentStep.
C25_OldTimersLeaveDisplayAlone ==
  [][(/\ advanceStep
      /\ showProgress
      /\ ~IsLatestHome(Head(timers).sess))
     => UNCHANGED <<currentProgress, currentStep>>]_vars

\* C26: when the response of an upload arrives after its session was
\* cancelled (the only session so far, cleared while still in flight), the
\* progress view stays hidden, nothing is scheduled that would show the
\* result view, and no handle is staged in the store.
C26_CancelDiscardsSession ==
  [][\A c \in pending, o \in SessionOutcomes :
       (/\ c.home /\ nextCall = 2 /\ history[c.id].cleared
        /\ uploadResponse(c, o))
       => /\ ~showProgress' /\ ~showResult'
          /\ \A i \in 1..Len(timers') : timers'[i].kind # "settle"
          /\ colorizationState'.originalImage = NoHandle
          /\ colorizationState'.colorizedImage = NoHandle]_vars

\* C27: whenever the result view is shown, originalImage and colorizedImage
\* both hold a handle that has not been revoked.
C27_ResultViewHasLiveImages ==
  showResult =>
    /\ colorizationState.originalImage \in liveHandles
    /\ colorizationState.colorizedImage \in liveHandles

\* C28: isLoading is true in every state in which an upload request issued
\* by colorizeImage is still pending.
C28_LoadingWhilePending ==
  pending # {} => colorizationState.isLoading

\* C29: in every state, serverStatus 'healthy' implies that the health
\* store's error is null.
C29_HealthyMeansNoError ==
  healthState.serverStatus = "healthy" => healthState.error = NULL

====
